---- MODULE Spec2Model ----
(***************************************************************************)
(* A model of structable's DbRecorder (src/structable.go): the descriptor  *)
(* scan done by Bind, the column / value / predicate lists every operation *)
(* derives from the descriptors and from the live record, the statements   *)
(* handed to the execution handle, and the lifecycle hooks around them.    *)
(*                                                                         *)
(* Strings that the code takes apart (struct tags) are sequences of        *)
(* lexemes: "," and " " are lexemes of their own, every other lexeme is a  *)
(* run of characters holding neither, so strings.Split on "," and          *)
(* strings.TrimSpace act on them as they act on the Go strings.            *)
(***************************************************************************)
EXTENDS Integers, Sequences, FiniteSets, TLC

\* Field values range over 0..MaxVal (0 is Go's zero value).
MaxVal == 1

Vals == 0..MaxVal

\* The nil pointer held by an optional (pointer) field (no value of Vals).
NIL == 0 - 1

\* The nil error.
NoErr == "nil"

\* The record reference of a recorder before Bind.
NoRecord == [type |-> "none", id |-> 0]

\* ListWhere returns at most MaxRows rows.
MaxRows == 2

Range(s) == {s[i] : i \in DOMAIN s}

-----------------------------------------------------------------------------
(* Record types.  A struct is the sequence of its fields in declaration    *)
(* order; tag is the value of the stbl key of the field's tag (<<>> when   *)
(* the field has none), kind is the reflect.Kind that the code tests.      *)

\* type Stool, the fixture of the statement tests, with its optional Color
\* and without Material (a second plain column, like Legs)
Stool ==
  << [name |-> "Id",       kind |-> "int", tag |-> <<"id", ",", "PRIMARY_KEY", ",", "AUTO_INCREMENT">>],
     [name |-> "Id2",      kind |-> "int", tag |-> <<"id_two", ",", " ", " ", "PRIMARY_KEY", " ", " ">>],
     [name |-> "Legs",     kind |-> "int", tag |-> <<"number_of_legs">>],
     [name |-> "Color",    kind |-> "ptr", tag |-> <<"color">>],
     [name |-> "Ignored",  kind |-> "str", tag |-> <<>>] >>

\* type Hooked, the fixture of the hook test: Break names the hook that fails
Hooked ==
  << [name |-> "Id",    kind |-> "int",  tag |-> <<"id", ",", "AUTO_INCREMENT", ",", "PRIMARY_KEY">>],
     [name |-> "Value", kind |-> "int",  tag |-> <<"value">>],
     [name |-> "Break", kind |-> "hook", tag |-> <<>>] >>

\* a link record: a two-column key declared in reverse alphabetical order of
\* its columns (with the "PRIMARY KEY" alias), and an optional payload
Pivot ==
  << [name |-> "Zone",   kind |-> "int", tag |-> <<"zone_id", ",", "PRIMARY", " ", "KEY">>],
     [name |-> "Area",   kind |-> "int", tag |-> <<"area_id", ",", "PRIMARY_KEY">>],
     [name |-> "Weight", kind |-> "ptr", tag |-> <<"weight">>] >>

\* a record without primary key: two auto columns that are no keys (the
\* SERIAL and "AUTO INCREMENT" aliases)
Note ==
  << [name |-> "Seq",  kind |-> "int", tag |-> <<"seq", ",", "SERIAL">>],
     [name |-> "Rev",  kind |-> "int", tag |-> <<"rev", ",", "AUTO", " ", "INCREMENT">>],
     [name |-> "Text", kind |-> "int", tag |-> <<"text", ",", "NOT", " ", "NULL">>] >>

\* a record whose auto key is an unexported int field: reflect finds the
\* field and its tag, and lets no one read it through Interface() or set it
Sealed ==
  << [name |-> "serial", kind |-> "unexported", tag |-> <<"serial", ",", "PRIMARY_KEY", ",", "SERIAL">>],
     [name |-> "Name",   kind |-> "int",        tag |-> <<"name">>] >>

\* a record whose key field says it is the key twice, in the two spellings
Badge ==
  << [name |-> "Id",    kind |-> "int", tag |-> <<"id", ",", "PRIMARY_KEY", ",", " ", "PRIMARY", " ", "KEY">>],
     [name |-> "Label", kind |-> "int", tag |-> <<"label">>] >>

\* A reference to a record names its type and the instance: instance 0 of
\* each type is the caller's, the others are allocated by ListWhere.
TypeNames == {"Stool", "Hooked", "Pivot", "Note", "Sealed", "Badge"}

Refs == {[type |-> t, id |-> 0] : t \in TypeNames}

TypeOf(ref) ==
  CASE ref.type = "Stool"  -> Stool
    [] ref.type = "Hooked" -> Hooked
    [] ref.type = "Pivot"  -> Pivot
    [] ref.type = "Note"   -> Note
    [] ref.type = "Sealed" -> Sealed
    [] ref.type = "Badge"  -> Badge

\* The lifecycle hooks (AfterLoader, BeforeInserter, ...).
HookNames ==
  {"AfterLoad", "BeforeInsert", "AfterInsert", "BeforeUpdate", "AfterUpdate", "BeforeDelete"}

\* The hooks a record implements: Hooked implements the six of them.
HooksOf(ref) == IF ref.type = "Hooked" THEN HookNames ELSE {}

\* The table names handed to Bind.
TableNames == {"test_table", "movies"}

\* The dialects handed to New.
Flavors == {"mysql", "postgres"}

FieldNames(ref) == {TypeOf(ref)[i].name : i \in DOMAIN TypeOf(ref)}

Kind(ref, name) ==
  LET i == CHOOSE i \in DOMAIN TypeOf(ref) : TypeOf(ref)[i].name = name
  IN  TypeOf(ref)[i].kind

\* The values a field of the given kind can hold.
Domain(kind) ==
  CASE kind = "int"  -> Vals
    [] kind = "ptr"  -> Vals \cup {NIL}
    [] kind = "str"  -> {"", "Boo"}
    [] kind = "hook" -> HookNames \cup {""}
    [] kind = "unexported" -> Vals

\* The zero value of a kind: what new(T) leaves in the field.
Zero(kind) ==
  CASE kind = "int"  -> 0
    [] kind = "ptr"  -> NIL
    [] kind = "str"  -> ""
    [] kind = "hook" -> ""
    [] kind = "unexported" -> 0

-----------------------------------------------------------------------------
VARIABLES
  heap,     \* the caller's records: heap[ref][field name] is the field's value
  recorder, \* the DbRecorder: its table, fields, key, record and flavor
  last,     \* the last call on the recorder: what it was given, sent and returned
  rows      \* the rows of the bound table, when the handle is a table that stores

vars == <<heap, recorder, last, rows>>

\* The execution handle the caller opened and hands to New.
TheDB == "db"

\* type DbRecorder: db is the execution handle (the builder runs with it),
\* table the bound table, fields the descriptors in scan order, key the
\* descriptors flagged primary key, record a reference to the bound record,
\* flavor the dialect
DbRecorder(db, table, fields, key, record, flavor) ==
  [db |-> db, table |-> table, fields |-> fields, key |-> key, record |-> record,
   flavor |-> flavor]

-----------------------------------------------------------------------------
(* Tag parsing and the descriptor scan.                                    *)

RECURSIVE Split(_, _)
\* strings.Split(s, sep): the pieces of s between the occurrences of sep
Split(s, sep) ==
  IF \A i \in DOMAIN s : s[i] # sep
    THEN <<s>>
    ELSE LET i == CHOOSE i \in DOMAIN s : s[i] = sep /\ \A j \in 1..(i - 1) : s[j] # sep
         IN  <<SubSeq(s, 1, i - 1)>> \o Split(SubSeq(s, i + 1, Len(s)), sep)

RECURSIVE TrimSpace(_)
\* strings.TrimSpace(s): s without its leading and trailing white space
TrimSpace(s) ==
  IF s = <<>> THEN s
  ELSE IF Head(s) = " " THEN TrimSpace(Tail(s))
  ELSE IF s[Len(s)] = " " THEN TrimSpace(SubSeq(s, 1, Len(s) - 1))
  ELSE s

\* parseTag: the comma-separated parts of a stbl tag
parseTag(fieldName, tag) ==
  LET parts == Split(tag, ",")
  IN  IF Len(parts) = 0 THEN <<fieldName>> ELSE parts

KeyWords == { <<"PRIMARY_KEY">>, <<"PRIMARY", " ", "KEY">> }

AutoWords == { <<"AUTO_INCREMENT">>, <<"SERIAL">>, <<"AUTO", " ", "INCREMENT">> }

RECURSIVE scanParts(_, _, _)
\* the loop of scanFields over parts[1:]: each key word sets isKey and appends
\* the descriptor to keys, each auto word sets isAuto
scanParts(parts, fld, keys) ==
  IF parts = <<>>
    THEN [field |-> fld, keys |-> keys]
    ELSE LET part == TrimSpace(Head(parts))
         IN  IF part \in KeyWords
               THEN scanParts(Tail(parts), [fld EXCEPT !.isKey = TRUE], keys + 1)
             ELSE IF part \in AutoWords
               THEN scanParts(Tail(parts), [fld EXCEPT !.isAuto = TRUE], keys)
             ELSE scanParts(Tail(parts), fld, keys)

\* the descriptor appended n times (keys holds pointers to one descriptor)
Repeat(x, n) == [i \in 1..n |-> x]

RECURSIVE scanLoop(_, _, _, _, _)
\* the loop of scanFields over the fields of the struct from index i on:
\* sfields and skey are s.fields and s.key, keys the local list of the call
scanLoop(decl, i, sfields, skey, keys) ==
  IF i > Len(decl)
    THEN [fields |-> sfields, key |-> skey]
    ELSE LET f == decl[i]
         IN  IF Len(f.tag) = 0
               THEN scanLoop(decl, i + 1, sfields, skey, keys)
               ELSE LET parts == parseTag(f.name, f.tag)
                        new   == [name |-> f.name, column |-> parts[1],
                                  isKey |-> FALSE, isAuto |-> FALSE]
                        got   == scanParts(Tail(parts), new, 0)
                        keys2 == keys \o Repeat(got.field, got.keys)
                    IN  scanLoop(decl, i + 1, Append(sfields, got.field), keys2, keys2)

\* scanFields: the descriptors of the record's type are appended to s.fields,
\* and s.key becomes the keys found by this call
scanFields(ar, sfields, skey) == scanLoop(TypeOf(ar), 1, sfields, skey, <<>>)

\* New, Init: a recorder of the given dialect, bound to nothing
New(db, flavor) == DbRecorder(db, "", <<>>, <<>>, NoRecord, flavor)

\* Bind: the table name, the descriptors scanned from the record's type and
\* the reference to the record are stored
Bind(s, tableName, ar) ==
  LET scanned == scanFields(ar, s.fields, s.key)
  IN  DbRecorder(s.db, tableName, scanned.fields, scanned.key, ar, s.flavor)

\* DbRecorder.Key: the columns of the key descriptors
Key(s) == [i \in DOMAIN s.key |-> s.key[i].column]

-----------------------------------------------------------------------------
(* The column, value, reference and predicate lists.  ar is the bound      *)
(* record's value (reflect.Indirect(reflect.ValueOf(s.record))); the       *)
(* lists are read off s.fields, s.key and ar.                              *)

\* the zero reflect.Value: what FieldByName gives for a name the record has
\* no field of
Invalid == 0 - 2

\* ar.FieldByName(name)
FieldByName(ar, name) == IF name \in DOMAIN ar THEN ar[name] ELSE Invalid

\* f.Kind() == reflect.Ptr && f.IsNil()
IsNilPtr(s, ar, name) ==
  name \in DOMAIN ar /\ Kind(s.record, name) = "ptr" /\ FieldByName(ar, name) = NIL

\* A field reflect gives no access to: the zero Value of a missing field and
\* the read-only Value of an unexported one make Interface(), Addr() and Set()
\* panic and CanSet() answer false.
Opaque(s, ar, name) == name \notin DOMAIN ar \/ Kind(s.record, name) = "unexported"

\* the first descriptor of descs whose field is opaque (0: none is)
FirstOpaque(s, ar, descs) ==
  IF \E i \in DOMAIN descs : Opaque(s, ar, descs[i].name)
    THEN CHOOSE i \in DOMAIN descs :
           /\ Opaque(s, ar, descs[i].name)
           /\ \A j \in 1..(i - 1) : ~Opaque(s, ar, descs[j].name)
    ELSE 0

\* the columns of a list of descriptors
ColumnsOf(descs) == [i \in DOMAIN descs |-> descs[i].column]

\* colList: the columns of the descriptors, without the keys unless withKeys,
\* without the nil optional fields when omitNil
colList(s, ar, withKeys, omitNil) ==
  LET keep(f) == /\ ~(~withKeys /\ f.isKey)
                 /\ ~(omitNil /\ IsNilPtr(s, ar, f.name))
  IN  ColumnsOf(SelectSeq(s.fields, keep))

\* Columns: the columns of the table, without the keys unless includeKeys
Columns(s, ar, includeKeys) == colList(s, ar, includeKeys, FALSE)

\* FieldReferences handing the references out last field first
FieldReferences_reversed(s, ar, withKeys) ==
  LET keep(f) == ~(~withKeys /\ f.isKey)
      kept    == SelectSeq(s.fields, keep)
  IN  [refs   |-> [i \in DOMAIN kept |-> kept[Len(kept) + 1 - i].name],
       ar     |-> [n \in DOMAIN ar |-> IF IsNilPtr(s, ar, n) THEN 0 ELSE ar[n]],
       panics |-> FirstOpaque(s, ar, kept) # 0]

\* FieldReferences leaving a nil optional field nil
FieldReferences_noAlloc(s, ar, withKeys) ==
  LET keep(f) == ~(~withKeys /\ f.isKey)
      kept    == SelectSeq(s.fields, keep)
  IN  [refs   |-> [i \in DOMAIN kept |-> kept[i].name],
       ar     |-> ar,
       panics |-> FirstOpaque(s, ar, kept) # 0]

\* FieldReferences: references to the fields of the descriptors (a reference
\* is the field's name), without the keys unless withKeys; a nil optional
\* field among them is given a new zero element first.  It panics at the
\* first opaque field, the fields before it allocated.
FieldReferences(s, ar, withKeys) ==
  LET keep(f) == ~(~withKeys /\ f.isKey)
      kept    == SelectSeq(s.fields, keep)
      refs    == [i \in DOMAIN kept |-> kept[i].name]
      stop    == FirstOpaque(s, ar, kept)
      done    == IF stop = 0 THEN Range(refs) ELSE {refs[i] : i \in 1..(stop - 1)}
  IN  [refs   |-> refs,
       ar     |-> [n \in DOMAIN ar |-> IF n \in done /\ IsNilPtr(s, ar, n) THEN 0 ELSE ar[n]],
       panics |-> stop # 0]

\* colValLists listing a nil optional field with a NULL for its value
colValLists_nilAsNull(s, ar, withKeys, withAutos) ==
  LET keep(f) == /\ ~(~withKeys /\ f.isKey)
                 /\ ~(~withAutos /\ f.isAuto)
      kept    == SelectSeq(s.fields, keep)
  IN  [columns |-> ColumnsOf(kept),
       values  |-> [i \in DOMAIN kept |-> FieldByName(ar, kept[i].name)],
       panics  |-> FirstOpaque(s, ar, kept) # 0]

\* colValLists taking the autos whatever withAutos says
colValLists_keepAutos(s, ar, withKeys, withAutos) ==
  LET keep(f) == /\ ~(~withKeys /\ f.isKey)
                 /\ ~IsNilPtr(s, ar, f.name)
      kept    == SelectSeq(s.fields, keep)
  IN  [columns |-> ColumnsOf(kept),
       values  |-> [i \in DOMAIN kept |-> FieldByName(ar, kept[i].name)],
       panics  |-> FirstOpaque(s, ar, kept) # 0]

\* colValLists: the columns and the values of the descriptors, without the
\* keys unless withKeys, without the autos unless withAutos, and without the
\* optional fields that are nil; v.Interface() panics on an opaque field
colValLists(s, ar, withKeys, withAutos) ==
  LET keep(f) == /\ ~(~withKeys /\ f.isKey)
                 /\ ~(~withAutos /\ f.isAuto)
                 /\ ~IsNilPtr(s, ar, f.name)
      kept    == SelectSeq(s.fields, keep)
  IN  [columns |-> ColumnsOf(kept),
       values  |-> [i \in DOMAIN kept |-> FieldByName(ar, kept[i].name)],
       panics  |-> FirstOpaque(s, ar, kept) # 0]

\* the map a loop of m[cols[i]] = vals[i] builds: a later entry replaces an
\* earlier one of the same column
MapOf(cols, vals) ==
  [c \in Range(cols) |->
     vals[CHOOSE i \in DOMAIN cols : cols[i] = c /\ \A j \in DOMAIN cols : cols[j] = c => j <= i]]

\* updateFields taking the keys too
updateFields_withKeys(s, ar) ==
  LET cv == colValLists(s, ar, TRUE, TRUE)
  IN  MapOf(cv.columns, cv.values)

\* updateFields leaving the autos out with the keys
updateFields_noAutos(s, ar) ==
  LET cv == colValLists(s, ar, FALSE, FALSE)
  IN  MapOf(cv.columns, cv.values)

\* updateFields: the SetMap of an update, every column but the keys
updateFields(s, ar) ==
  LET cv == colValLists(s, ar, FALSE, TRUE)
  IN  MapOf(cv.columns, cv.values)

\* colValLists(false, true) in updateFields panics on an opaque field
updateFieldsPanics(s, ar) == colValLists(s, ar, FALSE, TRUE).panics

\* WhereIds reading the key values of a copy of the record taken by Bind
\* (a record is bound as new(T) leaves it)
WhereIds_atBind(s, ar) ==
  MapOf(ColumnsOf(s.key), [i \in DOMAIN s.key |-> Zero(Kind(s.record, s.key[i].name))])

\* WhereIds: the map of the key columns to the current values of the key fields
WhereIds(s, ar) ==
  MapOf(ColumnsOf(s.key), [i \in DOMAIN s.key |-> FieldByName(ar, s.key[i].name)])

\* ar.FieldByName(f.name).Interface() in WhereIds panics on an opaque key field
WhereIdsPanics(s, ar) == FirstOpaque(s, ar, s.key) # 0

-----------------------------------------------------------------------------
(* The statement builder and the execution handle (both outside the        *)
(* repository).  A statement is what the builder hands to the handle.  The *)
(* builder renders a map (Where(map), SetMap(map)) in an order of its own: *)
(* a Go map has none, so every order of the map's columns is possible.     *)

Orders(m) ==
  {o \in [1..Cardinality(DOMAIN m) -> DOMAIN m] : \A i, j \in DOMAIN o : o[i] = o[j] => i = j}

\* Where(map): one equality conjunct per column of the map, in the order o
EqWhere(m, o) == [pred |-> "Eq", where |-> o, args |-> [i \in DOMAIN o |-> m[o[i]]]]

\* Where(pred, args...): the caller's predicate and arguments
PredWhere(pred, args) == [pred |-> pred, where |-> <<>>, args |-> args]

Stmt(verb, table, w) ==
  [verb |-> verb, table |-> table, columns |-> <<>>, values |-> <<>>,
   set |-> <<>>, pred |-> w.pred, where |-> w.where, args |-> w.args,
   returning |-> <<>>, mod |-> ""]

NoWhere == PredWhere("", <<>>)

\* builder.Select(cols...).From(table).Where(w)
SelectStmt(cols, table, w) == [Stmt("SELECT", table, w) EXCEPT !.columns = cols]

\* builder.Insert(table).Columns(cols...).Values(vals...) [.Suffix("RETURNING ...")]
InsertStmt(table, cols, vals, ret) ==
  [Stmt("INSERT", table, NoWhere) EXCEPT !.columns = cols, !.values = vals, !.returning = ret]

\* builder.Update(table).SetMap(m).Where(w): set is the map handed to SetMap
UpdateStmt(table, m, w) == [Stmt("UPDATE", table, w) EXCEPT !.set = m]

\* builder.Delete(table).Where(w)
DeleteStmt(table, w) == Stmt("DELETE", table, w)

\* The error of the handle (a driver error, sql.ErrNoRows, ...).
ErrHandle == "ErrHandle"

\* What QueryRow answers: an error, or a row whose i-th value is derived
\* from base so that neighbouring columns hold different values.
RowAnswers ==
  {[err |-> ErrHandle, base |-> 0]} \cup {[err |-> NoErr, base |-> b] : b \in Vals}

Row(base, n) == [i \in 1..n |-> (base + i) % (MaxVal + 1)]

\* What Exec answers: an error, or a result whose LastInsertId gives an id
\* or fails.
ExecAnswers ==
  {[err |-> ErrHandle, id |-> 0, idErr |-> NoErr], [err |-> NoErr, id |-> 0, idErr |-> "ErrNoId"]}
    \cup {[err |-> NoErr, id |-> v, idErr |-> NoErr] : v \in Vals}

\* What QueryRow answers to the COUNT(*) > 0 projection.
HasAnswers ==
  {[err |-> ErrHandle, has |-> FALSE]} \cup {[err |-> NoErr, has |-> b] : b \in BOOLEAN}

\* the row of an answer to a query of n columns: the row the answer names,
\* or the one derived from its base
RowOf(ans, n) == IF "row" \in DOMAIN ans THEN ans.row ELSE Row(ans.base, n)

\* Row.Scan(dest...) of the answer to a query of n columns: nothing is
\* written on an error or when the row has not as many values as dest; the
\* values are assigned in order, up to the first NULL, which no dest takes
Scan(ar, dest, ans, n) ==
  IF ans.err # NoErr THEN [ar |-> ar, err |-> ans.err]
  ELSE IF n # Len(dest) THEN [ar |-> ar, err |-> "ErrScan"]
  ELSE LET row == RowOf(ans, n)
           nulls == {i \in DOMAIN row : row[i] = NIL}
           upto == IF nulls = {} THEN Len(row)
                   ELSE (CHOOSE i \in nulls : \A j \in nulls : i <= j) - 1
           done == {dest[i] : i \in 1..upto}
           at(name) == CHOOSE i \in 1..upto :
                         dest[i] = name /\ \A j \in 1..upto : dest[j] = name => j <= i
       IN  [ar  |-> [name \in DOMAIN ar |->
                      IF name \in done THEN row[at(name)] ELSE ar[name]],
            err |-> IF nulls = {} THEN NoErr ELSE "ErrScan"]

-----------------------------------------------------------------------------
(* The operations of DbRecorder, each as the outcome of one call: the      *)
(* record's value after it, the statements sent, the error returned.       *)

Outcome(ar, sent, err) ==
  [ar |-> ar, sent |-> sent, err |-> err, has |-> FALSE, out |-> <<>>]

\* The call panics: it returns nothing, the record is as the panic found it.
Panic(ar, sent) == Outcome(ar, sent, "panic")

\* Load selecting and scanning the key columns with the others, as LoadWhere does
Load_withKeys(s, ar, o, ans) ==
  LET whereParts == WhereIds(s, ar)
      dest == FieldReferences(s, ar, TRUE)
      cols == colList(s, dest.ar, TRUE, FALSE)
      q    == SelectStmt(cols, s.table, EqWhere(whereParts, o))
      got  == Scan(dest.ar, dest.refs, ans, Len(cols))
  IN  IF WhereIdsPanics(s, ar) THEN Panic(ar, <<>>)
      ELSE IF dest.panics THEN Panic(dest.ar, <<>>)
      ELSE Outcome(got.ar, <<q>>, got.err)

\* Load: select the non-key columns where the keys match, scan into the record
Load(s, ar, o, ans) ==
  LET whereParts == WhereIds(s, ar)
      dest == FieldReferences(s, ar, FALSE)
      cols == colList(s, dest.ar, FALSE, FALSE)
      q    == SelectStmt(cols, s.table, EqWhere(whereParts, o))
      got  == Scan(dest.ar, dest.refs, ans, Len(cols))
  IN  IF WhereIdsPanics(s, ar) THEN Panic(ar, <<>>)
      ELSE IF dest.panics THEN Panic(dest.ar, <<>>)
      ELSE Outcome(got.ar, <<q>>, got.err)

\* LoadWhere listing the columns before it takes the references
LoadWhere_colsFirst(s, ar, pred, args, ans) ==
  LET cols == colList(s, ar, TRUE, TRUE)
      dest == FieldReferences(s, ar, TRUE)
      q    == SelectStmt(cols, s.table, PredWhere(pred, args))
      got  == Scan(dest.ar, dest.refs, ans, Len(cols))
  IN  [ar |-> got.ar, sent |-> <<q>>, err |-> got.err, has |-> FALSE, out |-> <<>>]

\* LoadWhere: select every column where the caller's predicate holds
LoadWhere(s, ar, pred, args, ans) ==
  LET dest == FieldReferences(s, ar, TRUE)
      cols == colList(s, dest.ar, TRUE, TRUE)
      q    == SelectStmt(cols, s.table, PredWhere(pred, args))
      got  == Scan(dest.ar, dest.refs, ans, Len(cols))
  IN  IF dest.panics THEN Panic(dest.ar, <<>>)
      ELSE Outcome(got.ar, <<q>>, got.err)

\* Exists asking whether the table has a row at all
Exists_anyRow(s, ar, o, ans) ==
  LET q == SelectStmt(<< <<"COUNT(*) > 0">> >>, s.table, NoWhere)
  IN  IF WhereIdsPanics(s, ar) THEN Panic(ar, <<>>)
      ELSE [Outcome(ar, <<q>>, ans.err) EXCEPT !.has = ans.has]

\* Exists: is there a row with the record's key
Exists(s, ar, o, ans) ==
  LET q == SelectStmt(<< <<"COUNT(*) > 0">> >>, s.table, EqWhere(WhereIds(s, ar), o))
  IN  IF WhereIdsPanics(s, ar) THEN Panic(ar, <<>>)
      ELSE [Outcome(ar, <<q>>, ans.err) EXCEPT !.has = ans.has]

\* ExistsWhere: is there a row the caller's predicate holds of
ExistsWhere(s, ar, pred, args, ans) ==
  LET q == SelectStmt(<< <<"COUNT(*) > 0">> >>, s.table, PredWhere(pred, args))
  IN  [Outcome(ar, <<q>>, ans.err) EXCEPT !.has = ans.has]

\* Delete leaving the record as new(T) would, once the row is deleted
Delete_clears(s, ar, o, ans) ==
  LET wheres == WhereIds(s, ar)
      q == DeleteStmt(s.table, EqWhere(wheres, o))
  IN  IF WhereIdsPanics(s, ar) THEN Panic(ar, <<>>)
      ELSE IF ans.err # NoErr THEN Outcome(ar, <<q>>, ans.err)
      ELSE Outcome([n \in DOMAIN ar |-> Zero(Kind(s.record, n))], <<q>>, NoErr)

\* Delete: delete the rows with the record's key
Delete(s, ar, o, ans) ==
  LET wheres == WhereIds(s, ar)
  IN  IF WhereIdsPanics(s, ar) THEN Panic(ar, <<>>)
      ELSE Outcome(ar, <<DeleteStmt(s.table, EqWhere(wheres, o))>>, ans.err)

\* insertStd taking the references of the fields as insertPg does, which
\* allocates the nil optional fields
insertStd_allocates(s, ar, ans) ==
  LET cv == colValLists(s, ar, TRUE, FALSE)
      q  == InsertStmt(s.table, cv.columns, cv.values, <<>>)
      dest == FieldReferences(s, ar, TRUE)
      autos == {s.fields[i].name : i \in {j \in DOMAIN s.fields : s.fields[j].isAuto}}
  IN  IF ans.err # NoErr THEN Outcome(ar, <<q>>, ans.err)
      ELSE IF autos # {} /\ ans.idErr # NoErr THEN Outcome(ar, <<q>>, "ErrLastInsertId")
      ELSE Outcome([n \in DOMAIN ar |-> IF n \in autos THEN ans.id ELSE dest.ar[n]], <<q>>, NoErr)

\* insertStd refusing a record with more than one auto field
insertStd_oneAuto(s, ar, ans) ==
  LET cv == colValLists(s, ar, TRUE, FALSE)
      q  == InsertStmt(s.table, cv.columns, cv.values, <<>>)
      autos == {s.fields[i].name : i \in {j \in DOMAIN s.fields : s.fields[j].isAuto}}
  IN  IF ans.err # NoErr THEN Outcome(ar, <<q>>, ans.err)
      ELSE IF Cardinality(autos) > 1 THEN Outcome(ar, <<q>>, "ErrManyAutos")
      ELSE IF autos # {} /\ ans.idErr # NoErr THEN Outcome(ar, <<q>>, "ErrLastInsertId")
      ELSE Outcome([n \in DOMAIN ar |-> IF n \in autos THEN ans.id ELSE ar[n]], <<q>>, NoErr)

\* insertStd returning the driver's error as it is when it gives no id, and
\* passing over an auto field it cannot set
insertStd_rawErrors(s, ar, ans) ==
  LET cv == colValLists(s, ar, TRUE, FALSE)
      q  == InsertStmt(s.table, cv.columns, cv.values, <<>>)
      autos == {s.fields[i].name : i \in {j \in DOMAIN s.fields : s.fields[j].isAuto}}
  IN  IF ans.err # NoErr THEN Outcome(ar, <<q>>, ans.err)
      ELSE IF autos # {} /\ ans.idErr # NoErr THEN Outcome(ar, <<q>>, ans.idErr)
      ELSE Outcome([n \in DOMAIN ar |->
                     IF n \in autos /\ ~Opaque(s, ar, n) THEN ans.id ELSE ar[n]], <<q>>, NoErr)

\* insertStd: insert, then write the driver's last insert id into the auto
\* fields, one after the other: an id the driver cannot give and a field
\* that cannot be set each end the call with an error made by fmt.Errorf
\* (the auto fields before it are set); SetInt panics on a field that is no int
insertStd(s, ar, ans) ==
  LET cv == colValLists(s, ar, TRUE, FALSE)
      q  == InsertStmt(s.table, cv.columns, cv.values, <<>>)
      isAuto(f) == f.isAuto
      autos == SelectSeq(s.fields, isAuto)
      canSet(i) == ~Opaque(s, ar, autos[i].name)
      sets(i) == canSet(i) /\ Kind(s.record, autos[i].name) = "int"
      stop == IF \A i \in DOMAIN autos : sets(i) THEN 0
              ELSE CHOOSE i \in DOMAIN autos : ~sets(i) /\ \A j \in 1..(i - 1) : sets(j)
      upto == IF stop = 0 THEN Len(autos) ELSE stop - 1
      set == [n \in DOMAIN ar |->
               IF \E i \in 1..upto : autos[i].name = n THEN ans.id ELSE ar[n]]
  IN  IF cv.panics THEN Panic(ar, <<>>)
      ELSE IF ans.err # NoErr THEN Outcome(ar, <<q>>, ans.err)
      ELSE IF autos = <<>> THEN Outcome(ar, <<q>>, NoErr)
      ELSE IF ans.idErr # NoErr THEN Outcome(ar, <<q>>, "ErrLastInsertId")
      ELSE IF stop = 0 THEN Outcome(set, <<q>>, NoErr)
      ELSE IF ~canSet(stop) THEN Outcome(set, <<q>>, "ErrCanSet")
      ELSE Panic(set, <<q>>)

\* insertPg taking the references (which allocates the nil optional fields)
\* before it lists the columns and values to insert
insertPg_refsFirst(s, ar, ans) ==
  LET dest == FieldReferences(s, ar, TRUE)
      cv   == colValLists(s, dest.ar, TRUE, FALSE)
      ret  == colList(s, dest.ar, TRUE, FALSE)
      q    == InsertStmt(s.table, cv.columns, cv.values, ret)
      got  == Scan(dest.ar, dest.refs, ans, Len(ret))
  IN  [ar |-> got.ar, sent |-> <<q>>, err |-> got.err, has |-> FALSE, out |-> <<>>]

\* insertPg returning and scanning the columns that are no keys
insertPg_noKeys(s, ar, ans) ==
  LET cv   == colValLists(s, ar, TRUE, FALSE)
      dest == FieldReferences(s, ar, FALSE)
      ret  == colList(s, dest.ar, FALSE, FALSE)
      q    == InsertStmt(s.table, cv.columns, cv.values, ret)
      got  == Scan(dest.ar, dest.refs, ans, Len(ret))
  IN  IF cv.panics \/ dest.panics THEN Panic(dest.ar, <<>>)
      ELSE Outcome(got.ar, <<q>>, got.err)

\* insertPg leaving out of RETURNING the columns of the optional fields that
\* are nil when it is called
insertPg_omitNil(s, ar, ans) ==
  LET cv   == colValLists(s, ar, TRUE, FALSE)
      ret  == colList(s, ar, TRUE, TRUE)
      dest == FieldReferences(s, ar, TRUE)
      q    == InsertStmt(s.table, cv.columns, cv.values, ret)
      got  == Scan(dest.ar, dest.refs, ans, Len(ret))
  IN  IF cv.panics THEN Panic(ar, <<>>)
      ELSE IF dest.panics THEN Panic(dest.ar, <<>>)
      ELSE Outcome(got.ar, <<q>>, got.err)

\* insertPg: insert RETURNING every column, scan the returned row into the record
insertPg(s, ar, ans) ==
  LET cv   == colValLists(s, ar, TRUE, FALSE)
      dest == FieldReferences(s, ar, TRUE)
      ret  == colList(s, dest.ar, TRUE, FALSE)
      q    == InsertStmt(s.table, cv.columns, cv.values, ret)
      got  == Scan(dest.ar, dest.refs, ans, Len(ret))
  IN  IF cv.panics THEN Panic(ar, <<>>)
      ELSE IF dest.panics THEN Panic(dest.ar, <<>>)
      ELSE Outcome(got.ar, <<q>>, got.err)

\* Update sending its statement again when the handle reports an error
Update_retry(s, ar, o, ans) ==
  LET q == UpdateStmt(s.table, updateFields(s, ar), EqWhere(WhereIds(s, ar), o))
  IN  IF WhereIdsPanics(s, ar) \/ updateFieldsPanics(s, ar) THEN Panic(ar, <<>>)
      ELSE IF ans.err # NoErr THEN Outcome(ar, <<q, q>>, ans.err)
      ELSE Outcome(ar, <<q>>, NoErr)

\* Update: set every non-key column where the keys match
Update(s, ar, o, ans) ==
  LET whereParts == WhereIds(s, ar)
      updates == updateFields(s, ar)
  IN  IF WhereIdsPanics(s, ar) \/ updateFieldsPanics(s, ar) THEN Panic(ar, <<>>)
      ELSE Outcome(ar, <<UpdateStmt(s.table, updates, EqWhere(whereParts, o))>>, ans.err)

-----------------------------------------------------------------------------
(* Listing.                                                                *)

\* What a WhereFunc returns: the query as it stands or with a clause added,
\* or an error.
WhereFuncs ==
  {[err |-> "ErrWhereFunc", mod |-> ""], [err |-> NoErr, mod |-> ""],
   [err |-> NoErr, mod |-> "ORDER BY"]}

\* the WhereFunc of List: LIMIT and OFFSET are added, never an error
ListFunc == [err |-> NoErr, mod |-> "LIMIT OFFSET"]

\* What Query answers: an error, or n rows and the error met after them;
\* null is the row whose first value is NULL (0: no row has a NULL).
QueryAnswers ==
  {[err |-> ErrHandle, n |-> 0, rowsErr |-> NoErr, null |-> 0]}
    \cup {a \in [err : {NoErr}, n : 0..MaxRows, rowsErr : {NoErr, ErrHandle}, null : {0, 1}] :
            a.null <= a.n}

\* the j-th row of the answer to a query of n columns
ListedRow(ans, n, j) ==
  [i \in 1..n |-> IF ans.null = j /\ i = 1 THEN NIL ELSE Row(j, n)[i]]

\* the record of the source handed to every recorder of the list
NewRecord_same(ar, j) == ar

\* reflect.New of the type of the bound record: the j-th record of the call
NewRecord(ar, j) == [type |-> ar.type, id |-> j]

ZeroRecord(ref) == [n \in FieldNames(ref) |-> Zero(Kind(ref, n))]

\* the body of the loop of ListWhere for the j-th row: a new recorder bound
\* to a new record, the row scanned into the record's fields; the error of
\* the scan (scanErr) is dropped
ListRow(d, cols, ans, j) ==
  LET rec  == NewRecord(d.record, j)
      s    == Bind(New(d.db, d.flavor), d.table, rec)
      dest == FieldReferences(s, ZeroRecord(rec), TRUE)
      row  == [err |-> NoErr, base |-> j, row |-> ListedRow(ans, Len(cols), j)]
      got  == Scan(dest.ar, dest.refs, row, Len(cols))
  IN  [s |-> s, ar |-> got.ar, panics |-> dest.panics, scanErr |-> got.err]

\* ListWhere sending the query whatever fn returned, and returning the error
\* of fn after it
ListWhere_queryAnyway(d, ar, fn, ans) ==
  LET cols == Columns(d, ar, FALSE)
      q    == [SelectStmt(cols, d.table, NoWhere) EXCEPT !.mod = fn.mod]
  IN  IF ans.err # NoErr THEN Outcome(ar, <<q>>, ans.err)
      ELSE IF fn.err # NoErr THEN Outcome(ar, <<q>>, fn.err)
      ELSE [Outcome(ar, <<q>>, ans.rowsErr)
              EXCEPT !.out = [j \in 1..ans.n |->
                               [s |-> ListRow(d, cols, ans, j).s, ar |-> ListRow(d, cols, ans, j).ar]]]

\* ListWhere: select the non-key columns with the query as fn leaves it, and
\* return one new recorder per row
ListWhere(d, ar, fn, ans) ==
  LET cols == Columns(d, ar, FALSE)
      q    == [SelectStmt(cols, d.table, NoWhere) EXCEPT !.mod = fn.mod]
  IN  IF fn.err # NoErr THEN Outcome(ar, <<>>, fn.err)
      ELSE IF ans.err # NoErr THEN Outcome(ar, <<q>>, ans.err)
      ELSE IF ans.n > 0 /\ ListRow(d, cols, ans, 1).panics THEN Panic(ar, <<q>>)
      ELSE [Outcome(ar, <<q>>, ans.rowsErr)
              EXCEPT !.out = [j \in 1..ans.n |->
                               [s |-> ListRow(d, cols, ans, j).s, ar |-> ListRow(d, cols, ans, j).ar]]]

\* List: ListWhere with the function that adds LIMIT and OFFSET
List(d, ar, ans) == ListWhere(d, ar, ListFunc, ans)

-----------------------------------------------------------------------------
(* The lifecycle hooks.  A record that implements a hook has it invoked by *)
(* the operation: a before hook that fails stops the call before anything  *)
(* is sent, an after hook runs once the statement has succeeded and its    *)
(* error is the call's.                                                    *)

\* Hooked.hookExec: the hook named by the record's Break field fails
hookExec(ar, name) == IF ar["Break"] = name THEN "Break" ELSE NoErr

\* the type assertion s.record.(BeforeInserter) and its like
Implements(s, name) == name \in HooksOf(s.record)

\* the call of a before hook: the hooks invoked and the error
Before(s, ar, name) ==
  IF Implements(s, name)
    THEN [hooks |-> <<name>>, err |-> hookExec(ar, name)]
    ELSE [hooks |-> <<>>, err |-> NoErr]

\* an after hook that is never invoked
After_skipped(s, res, name) == [hooks |-> <<>>, err |-> res.err]

\* the call of an after hook, made when the statement has succeeded
After(s, res, name) ==
  IF res.err = NoErr /\ Implements(s, name)
    THEN [hooks |-> <<name>>, err |-> hookExec(res.ar, name)]
    ELSE [hooks |-> <<>>, err |-> res.err]

\* the operation going on to its statement and its after hook when the
\* before hook has failed, the error of the before hook returned at the end
Hooks_pastBefore(s, ar, before, res, after) ==
  LET b == Before(s, ar, before)
      a == After(s, res, after)
      sent == [i \in DOMAIN res.sent |-> "statement"]
  IN  [res |-> [res EXCEPT !.err = IF b.err # NoErr THEN b.err ELSE a.err],
       events |-> b.hooks \o sent \o a.hooks]

\* the operation putting the record back as it was when the after hook fails
Hooks_undoAfter(s, ar, before, res, after) ==
  LET b == Before(s, ar, before)
      a == After(s, res, after)
      sent == [i \in DOMAIN res.sent |-> "statement"]
  IN  IF b.err # NoErr
        THEN [res |-> Outcome(ar, <<>>, b.err), events |-> b.hooks]
        ELSE [res |-> [res EXCEPT !.err = a.err,
                                  !.ar = IF a.err # res.err THEN ar ELSE res.ar],
              events |-> b.hooks \o sent \o a.hooks]

\* an operation res between its hooks (before or after may be "", no hook):
\* the outcome of the call and its events in order, the hooks invoked and a
\* "statement" for each statement sent
Hooks(s, ar, before, res, after) ==
  LET b == Before(s, ar, before)
      a == After(s, res, after)
      sent == [i \in DOMAIN res.sent |-> "statement"]
  IN  IF b.err # NoErr
        THEN [res |-> Outcome(ar, <<>>, b.err), events |-> b.hooks]
        ELSE [res |-> [res EXCEPT !.err = a.err], events |-> b.hooks \o sent \o a.hooks]

-----------------------------------------------------------------------------
(* The state machine: a recorder made by New, bound once, and the calls of *)
(* its owner.                                                              *)

\* What a call is given: the caller's predicate and arguments (LoadWhere,
\* ExistsWhere), what the caller's WhereFunc returns (ListWhere), and the
\* answer of the execution handle to the statement.
Given(pred, args, fn, ans) == [pred |-> pred, args |-> args, fn |-> fn, ans |-> ans]

NoFunc == [err |-> NoErr, mod |-> ""]

\* What is kept of a call: the operation, what it was given, the record's
\* value when it was called (pre), the statements it sent to the handle, its
\* events in order, the error it returned, the boolean it returned (Exists)
\* and the recorders it returned (ListWhere).
Call(op, given, pre, got) ==
  [op |-> op, given |-> given, pre |-> pre, sent |-> got.res.sent, events |-> got.events,
   err |-> got.res.err, has |-> got.res.has, out |-> got.res.out]

NoCall ==
  Call("none", Given("", <<>>, NoFunc, <<>>), <<>>,
       [res |-> Outcome(<<>>, <<>>, NoErr), events |-> <<>>])

\* the bound record's value
Rec == heap[recorder.record]

Bound == recorder.record # NoRecord

\* A call is made once the trace of the call before it is dropped.
Ready == Bound /\ last.op = "none"

\* New(db, flavor) has returned the recorder; every record of the caller is
\* as new(T) leaves it
Init ==
  /\ heap = [ref \in Refs |-> ZeroRecord(ref)]
  /\ \E flavor \in Flavors : recorder = New(TheDB, flavor)
  /\ last = NoCall
  /\ rows = <<>>

\* Bind(tableName, ar) on the recorder New returned
DoBind ==
  /\ ~Bound
  /\ \E tableName \in TableNames, ar \in Refs : recorder' = Bind(recorder, tableName, ar)
  /\ UNCHANGED <<heap, last, rows>>

\* the caller assigns a field of the bound record (the recorder holds the
\* record by reference, so it is the caller's instance that changes); the
\* trace of the last call is dropped, it describes the record no more
SetField ==
  /\ Bound
  /\ \E n \in FieldNames(recorder.record) :
       \E v \in Domain(Kind(recorder.record, n)) \ {Rec[n]} :
         heap' = [heap EXCEPT ![recorder.record][n] = v]
  /\ last' = NoCall
  /\ UNCHANGED <<recorder, rows>>

\* the caller is done with the outcome of the last call
Forget ==
  /\ last.op # "none"
  /\ last' = NoCall
  /\ UNCHANGED <<heap, recorder, rows>>

\* the call op returns: the record and the trace of the call are updated
Returned(op, given, got) ==
  /\ heap' = [heap EXCEPT ![recorder.record] = got.res.ar]
  /\ last' = Call(op, given, Rec, got)
  /\ UNCHANGED recorder

\* the call op returns from a handle that answers as it pleases
Returns(op, given, got) == Returned(op, given, got) /\ UNCHANGED rows

\* The predicates and arguments callers hand to LoadWhere and ExistsWhere.
Wheres ==
  {PredWhere("1=1", <<>>)} \cup {PredWhere("number_of_legs = ?", <<v>>) : v \in {0, MaxVal}}

DoLoad ==
  /\ Ready
  /\ \E o \in Orders(WhereIds(recorder, Rec)), ans \in RowAnswers :
       Returns("Load", Given("", <<>>, NoFunc, ans),
               Hooks(recorder, Rec, "", Load(recorder, Rec, o, ans), "AfterLoad"))

DoLoadWhere ==
  /\ Ready
  /\ \E w \in Wheres, ans \in RowAnswers :
       Returns("LoadWhere", Given(w.pred, w.args, NoFunc, ans),
               Hooks(recorder, Rec, "", LoadWhere(recorder, Rec, w.pred, w.args, ans), "AfterLoad"))

DoExists ==
  /\ Ready
  /\ \E o \in Orders(WhereIds(recorder, Rec)), ans \in HasAnswers :
       Returns("Exists", Given("", <<>>, NoFunc, ans),
               Hooks(recorder, Rec, "", Exists(recorder, Rec, o, ans), ""))

DoExistsWhere ==
  /\ Ready
  /\ \E w \in Wheres, ans \in HasAnswers :
       Returns("ExistsWhere", Given(w.pred, w.args, NoFunc, ans),
               Hooks(recorder, Rec, "", ExistsWhere(recorder, Rec, w.pred, w.args, ans), ""))

DoDelete ==
  /\ Ready
  /\ \E o \in Orders(WhereIds(recorder, Rec)), ans \in ExecAnswers :
       Returns("Delete", Given("", <<>>, NoFunc, ans),
               Hooks(recorder, Rec, "BeforeDelete", Delete(recorder, Rec, o, ans), ""))

\* Insert: the postgres dialect inserts with insertPg, every other with insertStd
DoInsert ==
  /\ Ready
  /\ \/ /\ recorder.flavor = "postgres"
        /\ \E ans \in RowAnswers :
             Returns("Insert", Given("", <<>>, NoFunc, ans),
                     Hooks(recorder, Rec, "BeforeInsert", insertPg(recorder, Rec, ans), "AfterInsert"))
     \/ /\ recorder.flavor # "postgres"
        /\ \E ans \in ExecAnswers :
             Returns("Insert", Given("", <<>>, NoFunc, ans),
                     Hooks(recorder, Rec, "BeforeInsert", insertStd(recorder, Rec, ans), "AfterInsert"))

DoUpdate ==
  /\ Ready
  /\ \E o \in Orders(WhereIds(recorder, Rec)), ans \in ExecAnswers :
       Returns("Update", Given("", <<>>, NoFunc, ans),
               Hooks(recorder, Rec, "BeforeUpdate", Update(recorder, Rec, o, ans), "AfterUpdate"))

DoList ==
  /\ Ready
  /\ \E ans \in QueryAnswers :
       Returns("List", Given("", <<>>, ListFunc, ans),
               Hooks(recorder, Rec, "", List(recorder, Rec, ans), ""))

DoListWhere ==
  /\ Ready
  /\ \E fn \in WhereFuncs, ans \in QueryAnswers :
       Returns("ListWhere", Given("", <<>>, fn, ans),
               Hooks(recorder, Rec, "", ListWhere(recorder, Rec, fn, ans), ""))

Next ==
  \/ DoBind
  \/ SetField
  \/ Forget
  \/ DoLoad
  \/ DoLoadWhere
  \/ DoExists
  \/ DoExistsWhere
  \/ DoDelete
  \/ DoInsert
  \/ DoUpdate
  \/ DoList
  \/ DoListWhere

Spec == Init /\ [][Next]_vars

-----------------------------------------------------------------------------
(* A handle that is a table which stores what is written: rows holds the   *)
(* rows of the bound table, each a value per mapped column.  The table has *)
(* the schema the tags describe: it generates the auto columns that an     *)
(* INSERT does not give, and holds one row per key.                        *)

\* The number of rows the table is let grow to.
MaxStored == 1

\* the value the INSERT q gives the column c (NULL when it gives none)
Written(q, c) ==
  IF c \in Range(q.columns)
    THEN q.values[CHOOSE k \in DOMAIN q.columns : q.columns[k] = c]
    ELSE NIL

\* the row the table stores for the INSERT q: the id it generates is one
\* more than the rows it holds
StoredRow(s, q) ==
  [c \in Range(ColumnsOf(s.fields)) |->
     IF c \notin Range(q.columns) /\ (\E f \in Range(s.fields) : f.column = c /\ f.isAuto)
       THEN Len(rows) + 1
       ELSE Written(q, c)]

\* the table holds a row with the key of row already
Duplicate(s, row) ==
  /\ s.key # <<>>
  /\ \E i \in DOMAIN rows : \A f \in Range(s.key) : rows[i][f.column] = row[f.column]

\* what the table answers to the INSERT q: to Exec (the id generated), and
\* to QueryRow (the row of the RETURNING columns)
StoreInserts(s, q) ==
  IF Duplicate(s, StoredRow(s, q))
    THEN [err |-> "ErrDuplicate", id |-> 0, idErr |-> NoErr, base |-> 0, row |-> <<>>]
    ELSE [err |-> NoErr, id |-> Len(rows) + 1, idErr |-> NoErr, base |-> 0,
          row |-> [k \in DOMAIN q.returning |-> StoredRow(s, q)[q.returning[k]]]]

\* the columns the caller's predicate pred names
ColumnsIn(pred) == IF pred = "number_of_legs = ?" THEN {<<"number_of_legs">>} ELSE {}

\* the predicate of the statement q holds of the row: the conjunction of the
\* equalities of a map, the caller's "1=1", the caller's equality
Holds(q, row) ==
  IF q.pred = "Eq" THEN \A k \in DOMAIN q.where : row[q.where[k]] = q.args[k]
  ELSE IF q.pred = "number_of_legs = ?" THEN row[<<"number_of_legs">>] = q.args[1]
  ELSE TRUE

\* what the table answers to the SELECT COUNT(*) > 0 q: an error when the
\* predicate names a column the table has not, else whether a row matches
StoreCounts(s, q) ==
  IF ~(ColumnsIn(q.pred) \subseteq Range(ColumnsOf(s.fields)))
    THEN [err |-> ErrHandle, has |-> FALSE]
    ELSE [err |-> NoErr, has |-> \E i \in DOMAIN rows : Holds(q, rows[i])]

\* what the table answers to the SELECT q: the columns of the first row
\* that the equality predicate holds of
StoreSelects(q) ==
  LET matching == {i \in DOMAIN rows : Holds(q, rows[i])}
      first == CHOOSE i \in matching : \A j \in matching : i <= j
  IN  IF matching = {} THEN [err |-> "ErrNoRows", base |-> 0, row |-> <<>>]
      ELSE [err |-> NoErr, base |-> 0,
            row |-> [k \in DOMAIN q.columns |-> rows[first][q.columns[k]]]]

\* an answer of the handle that stands for any, to learn the statement of a call
AnyAnswer == [err |-> NoErr, id |-> 0, idErr |-> NoErr, base |-> 0, has |-> FALSE]

\* Insert: the postgres dialect inserts with insertPg, every other with insertStd
Insert(s, ar, ans) ==
  IF s.flavor = "postgres" THEN insertPg(s, ar, ans) ELSE insertStd(s, ar, ans)

\* what the table answers to the statements sent (any answer to none)
StoreAnswers(s, sent) ==
  IF sent = <<>> THEN AnyAnswer
  ELSE IF sent[1].verb = "INSERT" THEN StoreInserts(s, sent[1])
  ELSE IF sent[1].columns = << <<"COUNT(*) > 0">> >> THEN StoreCounts(s, sent[1])
  ELSE StoreSelects(sent[1])

\* Insert on the storing table, of a record just filled in or just loaded:
\* the row is stored when the statement is sent and the table takes it
StInsert ==
  /\ Bound
  /\ last.op \in {"none", "Load"}
  /\ Len(rows) < MaxStored
  /\ \E ans \in {StoreAnswers(recorder, Insert(recorder, Rec, AnyAnswer).sent)} :
       \E got \in {Hooks(recorder, Rec, "BeforeInsert", Insert(recorder, Rec, ans), "AfterInsert")} :
         /\ Returned("Insert", Given("", <<>>, NoFunc, ans), got)
         /\ rows' = IF got.res.sent # <<>> /\ ans.err = NoErr
                      THEN Append(rows, StoredRow(recorder, got.res.sent[1]))
                      ELSE rows

\* Load on the storing table, before any Insert or after one
StLoad ==
  /\ Bound
  /\ last.op \in {"none", "Insert"}
  /\ \E o \in Orders(WhereIds(recorder, Rec)) :
       \E ans \in {StoreAnswers(recorder, Load(recorder, Rec, o, AnyAnswer).sent)} :
         Returned("Load", Given("", <<>>, NoFunc, ans),
                  Hooks(recorder, Rec, "", Load(recorder, Rec, o, ans), "AfterLoad"))
  /\ UNCHANGED rows

\* Exists on the storing table, at any time
StExists ==
  /\ Bound
  /\ last.op \in {"none", "Insert", "Load"}
  /\ \E o \in Orders(WhereIds(recorder, Rec)) :
       \E ans \in {StoreAnswers(recorder, Exists(recorder, Rec, o, AnyAnswer).sent)} :
         Returned("Exists", Given("", <<>>, NoFunc, ans),
                  Hooks(recorder, Rec, "", Exists(recorder, Rec, o, ans), ""))
  /\ UNCHANGED rows

\* ExistsWhere on the storing table, at any time
StExistsWhere ==
  /\ Bound
  /\ last.op \in {"none", "Insert", "Load"}
  /\ \E w \in Wheres :
       \E ans \in {StoreAnswers(recorder, ExistsWhere(recorder, Rec, w.pred, w.args, AnyAnswer).sent)} :
         Returned("ExistsWhere", Given(w.pred, w.args, NoFunc, ans),
                  Hooks(recorder, Rec, "", ExistsWhere(recorder, Rec, w.pred, w.args, ans), ""))
  /\ UNCHANGED rows

\* the caller fills in the record it is about to store
StFill == rows = <<>> /\ SetField

\* the caller gives a key field of the record it has loaded another value:
\* the record names another row, or none
StRekey ==
  /\ rows # <<>>
  /\ last.op = "Load" /\ last.err = NoErr
  /\ \E f \in Range(recorder.key) :
       /\ f.name \in DOMAIN Rec
       /\ \E v \in Domain(Kind(recorder.record, f.name)) \ {Rec[f.name]} :
            heap' = [heap EXCEPT ![recorder.record][f.name] = v]
  /\ last' = NoCall
  /\ UNCHANGED <<recorder, rows>>

\* the caller changes a mapped field that is no key of the record it has
\* just inserted; the trace of the Insert stays, the record is to be loaded
StScribble ==
  /\ last.op = "Insert"
  /\ \E f \in Range(recorder.fields) :
       /\ ~f.isKey
       /\ f.name \in DOMAIN Rec
       /\ \E v \in Domain(Kind(recorder.record, f.name)) \ {Rec[f.name]} :
            heap' = [heap EXCEPT ![recorder.record][f.name] = v]
  /\ UNCHANGED <<recorder, last, rows>>

NextStore ==
  \/ DoBind
  \/ StFill
  \/ StInsert
  \/ StScribble
  \/ StRekey
  \/ StLoad
  \/ StExists
  \/ StExistsWhere

SpecStore == Init /\ [][NextStore]_vars

-----------------------------------------------------------------------------
(* A recorder bound again.  Bind may be called on a recorder that is bound *)
(* already, with the same record or another.                               *)

\* The number of descriptors a recorder is let grow to, Bind after Bind.
MaxDescs == 4

\* Bind(tableName, ar) on a bound recorder
DoRebind ==
  /\ Ready
  /\ \E tableName \in TableNames, ar \in Refs :
       /\ Len(Bind(recorder, tableName, ar).fields) <= MaxDescs
       /\ recorder' = Bind(recorder, tableName, ar)
  /\ UNCHANGED <<heap, last, rows>>

NextRebind == Next \/ DoRebind

SpecRebind == Init /\ [][NextRebind]_vars

-----------------------------------------------------------------------------
(* Two recorders, each used by a goroutine of its own.  recorder[i] is the *)
(* recorder of goroutine i and last[i] what the goroutine is at: the call  *)
(* it makes and what the handle answers it, and alone, the value its       *)
(* record has when its call is run with no other goroutine about.  A call  *)
(* takes two steps, any step of the other goroutine between them: up to    *)
(* the statement (the references are taken, which allocates), then the     *)
(* answer of the handle and what follows it.                               *)

\* The records the two goroutines bind: two instances of one type.
PairRefs == {[type |-> "Stool", id |-> 0], [type |-> "Stool", id |-> 1]}

\* a record the caller has filled in: every field with the greatest value
FullRecord(ref) ==
  [n \in FieldNames(ref) |-> IF Kind(ref, n) = "str" THEN "Boo" ELSE MaxVal]

PairOps == {"Load", "LoadWhere", "Insert", "Update", "Delete"}

\* a goroutine that has made no call
Idle(record) == [pc |-> "idle", op |-> "none", ans |-> <<>>, alone |-> record]

\* every record of the callers is as new(T) leaves it or filled in; two
\* recorders from New on the one handle
InitPair ==
  /\ heap \in [PairRefs -> {ZeroRecord(ref) : ref \in PairRefs} \cup {FullRecord(ref) : ref \in PairRefs}]
  /\ \A ref \in PairRefs : heap[ref] \in {ZeroRecord(ref), FullRecord(ref)}
  /\ \E f1, f2 \in Flavors : recorder = <<New(TheDB, f1), New(TheDB, f2)>>
  /\ last = [i \in 1..2 |-> Idle(<<>>)]
  /\ rows = <<>>

\* the record every call of the goroutines works on, whoever makes it
RecordOf_shared(i) == recorder[1].record

\* s.record: the record the calls of goroutine i work on
RecordOf(i) == recorder[i].record

\* goroutine i binds its recorder to a record the other has not bound
PairBind ==
  \E i \in 1..2, ar \in PairRefs :
    /\ recorder[i].record = NoRecord
    /\ recorder[3 - i].record # ar
    /\ recorder' = [recorder EXCEPT ![i] = Bind(recorder[i], "test_table", ar)]
    /\ last' = [last EXCEPT ![i] = Idle(heap[ar])]
    /\ UNCHANGED <<heap, rows>>

\* what the handle may answer the statement of the call op
PairAnswers(s, op) ==
  IF op \in {"Load", "LoadWhere"} \/ (op = "Insert" /\ s.flavor = "postgres")
    THEN RowAnswers ELSE ExecAnswers

\* the record as the call op leaves it by the time its statement is sent:
\* Load, LoadWhere and the postgres Insert have taken their references
PairFirst(s, ar, op) ==
  IF op = "Load" THEN FieldReferences(s, ar, FALSE).ar
  ELSE IF op = "LoadWhere" \/ (op = "Insert" /\ s.flavor = "postgres")
    THEN FieldReferences(s, ar, TRUE).ar
  ELSE ar

\* the order the builder renders the key predicate in
PairOrder(s, ar) == CHOOSE o \in Orders(WhereIds(s, ar)) : TRUE

\* the call op of the recorder s on the record's value ar
PairCall(s, ar, op, ans) ==
  CASE op = "Load"      -> Load(s, ar, PairOrder(s, ar), ans)
    [] op = "LoadWhere" -> LoadWhere(s, ar, "1=1", <<>>, ans)
    [] op = "Insert"    -> Insert(s, ar, ans)
    [] op = "Update"    -> Update(s, ar, PairOrder(s, ar), ans)
    [] op = "Delete"    -> Delete(s, ar, PairOrder(s, ar), ans)

\* goroutine i makes its call: the call runs up to its statement
PairStart ==
  \E i \in 1..2, op \in PairOps :
    /\ recorder[i].record # NoRecord
    /\ last[i].pc = "idle" /\ last[i].op = "none"
    /\ \E ans \in PairAnswers(recorder[i], op) :
         last' = [last EXCEPT ![i].pc = "sent", ![i].op = op, ![i].ans = ans]
    /\ heap' = [heap EXCEPT ![RecordOf(i)] = PairFirst(recorder[i], heap[RecordOf(i)], op)]
    /\ UNCHANGED <<recorder, rows>>

\* the handle answers the call of goroutine i, which returns
PairFinish ==
  \E i \in 1..2 :
    /\ last[i].pc = "sent"
    /\ heap' = [heap EXCEPT ![RecordOf(i)] =
                 PairCall(recorder[i], heap[RecordOf(i)], last[i].op, last[i].ans).ar]
    /\ last' = [last EXCEPT
                  ![i].pc = "idle",
                  ![i].alone = PairCall(recorder[i], last[i].alone, last[i].op, last[i].ans).ar]
    /\ UNCHANGED <<recorder, rows>>

NextPair == PairBind \/ PairStart \/ PairFinish

SpecPair == InitPair /\ [][NextPair]_vars

-----------------------------------------------------------------------------
(* The properties.  Each is about the call the trace `last` describes: the *)
(* statement it sent, read against the descriptors and against the value   *)
(* the record had when the call was made.                                  *)

\* the first statement of the last call
Q == last.sent[1]

\* the descriptor of a column
DescOf(c) == CHOOSE f \in Range(recorder.fields) : f.column = c

IsKey(f) == f.isKey

IsOptional(f) == Kind(recorder.record, f.name) = "ptr"

\* the descriptors flagged primary key, in descriptor order
KeyDescs == SelectSeq(recorder.fields, IsKey)

\* C1: the column list and the value list of the INSERT that Insert issues
\* hold no column of a field flagged auto-generated, in every dialect and
\* whatever the field holds: every column is that of a descriptor not flagged
\* auto, and the value beside it is that field's value.
C1_InsertOmitsAuto ==
  last.op = "Insert" =>
    \A i \in DOMAIN last.sent :
      LET q == last.sent[i]
      IN  /\ q.verb = "INSERT"
          /\ Len(q.values) = Len(q.columns)
          /\ \A f \in Range(recorder.fields) : f.isAuto => f.column \notin Range(q.columns)
          /\ \A k \in DOMAIN q.columns :
               /\ q.columns[k] \in Range(ColumnsOf(recorder.fields))
               /\ q.values[k] = last.pre[DescOf(q.columns[k]).name]

\* an Insert of either dialect has sent its statement for a record whose
\* auto field held a value other than the zero value
C1_Witness ==
  /\ last.op = "Insert"
  /\ Len(last.sent) = 1
  /\ Q.columns # <<>>
  /\ \E f \in Range(recorder.fields) : f.isAuto /\ last.pre[f.name] = MaxVal

\* C2: Insert lists the column and the value of an optional (pointer) field
\* if and only if the field is non-nil when Insert is called, and the columns
\* listed keep the order of the descriptors.
C2_InsertOptional ==
  last.op = "Insert" /\ last.sent # <<>> =>
    LET listed(f) == f.column \in Range(Q.columns)
    IN  /\ \A f \in Range(recorder.fields) :
             IsOptional(f) /\ ~f.isAuto => (listed(f) <=> last.pre[f.name] # NIL)
        /\ Len(Q.values) = Len(Q.columns)
        /\ \A k \in DOMAIN Q.columns :
             IsOptional(DescOf(Q.columns[k])) =>
               /\ Q.values[k] # NIL
               /\ Q.values[k] = last.pre[DescOf(Q.columns[k]).name]
        /\ Q.columns = ColumnsOf(SelectSeq(recorder.fields, listed))

\* a postgres Insert was called with Color nil: the column is left out of the
\* statement, and the call has since allocated the field
C2_Witness ==
  /\ last.op = "Insert"
  /\ recorder.flavor = "postgres"
  /\ recorder.record.type = "Stool"
  /\ last.sent # <<>>
  /\ last.pre["Color"] = NIL
  /\ Rec["Color"] # NIL
  /\ <<"color">> \notin Range(Q.columns)
  /\ Q.columns = << <<"id_two">>, <<"number_of_legs">> >>

\* C3: the SET clause of the UPDATE that Update issues holds no column of a
\* field flagged primary key.
C3_UpdateOmitsKeys ==
  last.op = "Update" =>
    \A i \in DOMAIN last.sent :
      /\ last.sent[i].verb = "UPDATE"
      /\ \A f \in Range(recorder.fields) : f.isKey => f.column \notin DOMAIN last.sent[i].set

\* an Update of a record with two key fields has sent a SET clause
C3_Witness ==
  /\ last.op = "Update"
  /\ Len(last.sent) = 1
  /\ Len(KeyDescs) = 2
  /\ DOMAIN Q.set # {}

\* C4: the predicate of Load, Exists, Delete and Update has exactly one
\* equality conjunct per field flagged primary key (none when there is no
\* key), and the argument of each is the value the key field holds when the
\* operation is called.
C4_KeyPredicate ==
  last.op \in {"Load", "Exists", "Delete", "Update"} /\ last.sent # <<>> =>
    /\ Q.pred = "Eq"
    /\ Len(Q.where) = Len(KeyDescs)
    /\ Len(Q.args) = Len(KeyDescs)
    /\ \A f \in Range(KeyDescs) :
         \E k \in DOMAIN Q.where :
           /\ Q.where[k] = f.column
           /\ Q.args[k] = last.pre[f.name]
           /\ \A j \in DOMAIN Q.where : Q.where[j] = f.column => j = k

\* a Delete with two conjuncts whose arguments are values the caller gave
\* the key fields after Bind (a record is bound with zero key fields)
C4_Witness ==
  /\ last.op = "Delete"
  /\ last.sent # <<>>
  /\ Len(Q.where) = 2
  /\ \A k \in DOMAIN Q.args : Q.args[k] = MaxVal

\* C5: the conjuncts of the key predicate of Load, Exists and Delete, and
\* their arguments, come in descriptor order.
C5_KeyOrder ==
  last.op \in {"Load", "Exists", "Delete"} /\ last.sent # <<>> =>
    /\ Q.where = ColumnsOf(KeyDescs)
    /\ Q.args = [i \in DOMAIN KeyDescs |-> last.pre[KeyDescs[i].name]]

\* C6: Load selects the columns of the non-key descriptors, in descriptor
\* order, with the key equality predicate; LoadWhere selects the columns of
\* all the descriptors, in descriptor order, with the caller's predicate and
\* arguments as they were given.
C6_LoadColumns ==
  /\ last.op = "Load" /\ last.sent # <<>> =>
       LET nonKey(f) == ~f.isKey
       IN  /\ Len(last.sent) = 1
           /\ Q.verb = "SELECT"
           /\ Q.columns = ColumnsOf(SelectSeq(recorder.fields, nonKey))
           /\ Q.pred = "Eq"
           /\ Range(Q.where) = Range(ColumnsOf(KeyDescs))
  /\ last.op = "LoadWhere" /\ last.sent # <<>> =>
       /\ Len(last.sent) = 1
       /\ Q.verb = "SELECT"
       /\ Q.columns = ColumnsOf(recorder.fields)
       /\ Q.pred = last.given.pred
       /\ Q.args = last.given.args
       /\ Q.where = <<>>

\* a LoadWhere called with a predicate and an argument on a record whose
\* optional field was nil has selected the optional column too
C6_Witness ==
  /\ last.op = "LoadWhere"
  /\ last.sent # <<>>
  /\ recorder.record.type = "Stool"
  /\ last.pre["Color"] = NIL
  /\ Q.args = <<MaxVal>>
  /\ Q.columns = << <<"id">>, <<"id_two">>, <<"number_of_legs">>, <<"color">> >>

\* the before hook and the after hook of an operation (<<>>: it has none)
BeforeHookOf(op) ==
  CASE op = "Insert" -> <<"BeforeInsert">>
    [] op = "Update" -> <<"BeforeUpdate">>
    [] op = "Delete" -> <<"BeforeDelete">>
    [] OTHER -> <<>>

AfterHookOf(op) ==
  CASE op \in {"Load", "LoadWhere"} -> <<"AfterLoad">>
    [] op = "Insert" -> <<"AfterInsert">>
    [] op = "Update" -> <<"AfterUpdate">>
    [] OTHER -> <<>>

\* the record of the last call implements every lifecycle hook
IsHooked == HookNames \subseteq HooksOf(recorder.record)

C10_ListWhereFuncError ==
  last.op = "ListWhere" /\ last.given.fn.err # NoErr =>
    /\ last.err = last.given.fn.err
    /\ last.out = <<>>
    /\ last.sent = <<>>

\* a ListWhere whose function has failed, on a handle that would have
\* answered with rows
C10_Witness ==
  /\ last.op = "ListWhere"
  /\ last.given.fn.err = "ErrWhereFunc"
  /\ last.given.ans.err = NoErr
  /\ last.given.ans.n = MaxRows
  /\ last.err = "ErrWhereFunc"

\* the recorder New and one Bind with the last arguments give
FreshlyBound == Bind(New(recorder.db, recorder.flavor), recorder.table, recorder.record)

\* C11: after any sequence of Bind calls the recorder's descriptors, key,
\* table and record are those of the last Bind alone, and the INSERT that
\* Insert sends lists the columns a recorder bound once would list.
C11_LastBindWins ==
  /\ Bound => recorder = FreshlyBound
  /\ last.op = "Insert" /\ last.sent # <<>> =>
       Q.columns = colValLists(FreshlyBound, last.pre, TRUE, FALSE).columns

\* the descriptors flagged auto, in descriptor order
IsAuto(f) == f.isAuto

AutoDescs == SelectSeq(recorder.fields, IsAuto)

\* the last call is an Insert in a dialect other than postgres
StdInsert == last.op = "Insert" /\ recorder.flavor # "postgres"

\* C12: after a successful Insert in the default dialect every auto field
\* of the record holds the id the driver reported for the INSERT, and every
\* other field, a nil optional field too, holds what it held before the call.
C12_InsertStdFrame ==
  StdInsert /\ last.err = NoErr =>
    /\ Len(last.sent) = 1
    /\ \A n \in DOMAIN Rec :
         IF \E f \in Range(AutoDescs) : f.name = n
           THEN Rec[n] = last.given.ans.id
           ELSE Rec[n] = last.pre[n]

\* a mysql Insert of a Stool with Color nil has succeeded: Id holds the new
\* id, which it did not hold before, and Color is nil still
C12_Witness ==
  /\ StdInsert /\ last.err = NoErr
  /\ recorder.record.type = "Stool"
  /\ last.pre["Color"] = NIL /\ Rec["Color"] = NIL
  /\ last.pre["Id"] # MaxVal /\ Rec["Id"] = MaxVal
  /\ Rec["Id2"] = MaxVal

\* C13: in the default dialect, Insert on a record that declares more than
\* one auto field returns an error.
C13_ManyAutosFail ==
  StdInsert /\ Len(AutoDescs) > 1 /\ last.sent # <<>> => last.err # NoErr

\* C13 as the code has it: in the default dialect, Insert on a record that
\* declares more than one auto field (and no hook) succeeds when the handle
\* executes the statement, the driver reports an id and the auto fields can
\* be set, and then each of the auto fields holds that id.
C13_ManyAutosSet ==
  StdInsert /\ Len(AutoDescs) > 1 /\ last.sent # <<>>
    /\ last.given.ans.err = NoErr /\ last.given.ans.idErr = NoErr
    /\ (\A f \in Range(AutoDescs) : ~Opaque(recorder, last.pre, f.name))
    /\ HooksOf(recorder.record) = {} =>
      /\ last.err = NoErr
      /\ \A f \in Range(AutoDescs) : Rec[f.name] = last.given.ans.id

\* a mysql Insert of a Note has written the id into Seq and into Rev
C13_Witness ==
  /\ StdInsert /\ last.err = NoErr
  /\ recorder.record.type = "Note"
  /\ Len(AutoDescs) = 2
  /\ last.pre["Seq"] = 0 /\ last.pre["Rev"] = 0
  /\ Rec["Seq"] = MaxVal /\ Rec["Rev"] = MaxVal

\* C14: a successful Insert in the postgres dialect has sent one INSERT
\* whose RETURNING clause lists the column of every descriptor, keys too, in
\* descriptor order, and every mapped field holds the value of its column in
\* the returned row.
C14_InsertPgReturning ==
  last.op = "Insert" /\ recorder.flavor = "postgres" /\ last.err = NoErr =>
    /\ Len(last.sent) = 1
    /\ Q.verb = "INSERT"
    /\ Q.returning = ColumnsOf(recorder.fields)
    /\ \A i \in DOMAIN recorder.fields :
         Rec[recorder.fields[i].name] = Row(last.given.ans.base, Len(recorder.fields))[i]

\* a postgres Insert of a Stool has succeeded: the auto key, the other key
\* and a plain field hold values of the returned row they did not hold before
C14_Witness ==
  /\ last.op = "Insert" /\ recorder.flavor = "postgres" /\ last.err = NoErr
  /\ recorder.record.type = "Stool"
  /\ Rec["Id"] # last.pre["Id"]
  /\ Rec["Id2"] # last.pre["Id2"]
  /\ Rec["Legs"] # last.pre["Legs"]
  /\ last.pre["Color"] = NIL /\ Rec["Color"] # NIL

\* C15: in the default dialect, when the INSERT of a record with an auto
\* field has been executed and the driver reports no last insert id, or an
\* auto field cannot be set, Insert returns an error of its own making:
\* not nil, not the error of the driver.
C15_InsertStdDescriptiveError ==
  StdInsert /\ last.sent # <<>> /\ last.given.ans.err = NoErr /\ AutoDescs # <<>>
    /\ (\/ last.given.ans.idErr # NoErr
        \/ \E f \in Range(AutoDescs) : Opaque(recorder, last.pre, f.name)) =>
      /\ last.err \in {"ErrLastInsertId", "ErrCanSet"}
      /\ last.err \notin {NoErr, last.given.ans.idErr, last.given.ans.err}
      /\ last.given.ans.idErr # NoErr => last.err = "ErrLastInsertId"
      /\ Len(last.sent) = 1

\* a mysql Insert of a record whose auto field is unexported: the driver
\* reported an id and the call returned the error of the field not set
C15_Witness ==
  /\ StdInsert
  /\ recorder.record.type = "Sealed"
  /\ last.given.ans.err = NoErr /\ last.given.ans.idErr = NoErr
  /\ last.given.ans.id = MaxVal
  /\ last.err = "ErrCanSet"
  /\ Rec["serial"] = 0

\* C16: when the handle reports an error for the statement of Load,
\* LoadWhere, Update, Delete, Exists, ExistsWhere or the Insert of the
\* default dialect, the call returns that error and has sent one statement.
C16_HandleErrorVerbatim ==
  /\ last.op \in {"Load", "LoadWhere", "Update", "Delete", "Exists", "ExistsWhere"} \/ StdInsert
  /\ last.sent # <<>>
  /\ last.given.ans.err # NoErr
  => /\ last.err = last.given.ans.err
     /\ Len(last.sent) = 1

\* an Update whose statement the handle refused
C16_Witness ==
  /\ last.op = "Update"
  /\ last.given.ans.err = ErrHandle
  /\ last.err = ErrHandle
  /\ Len(last.sent) = 1
  /\ DOMAIN Q.set # {}

\* C18: the SET clause of the UPDATE that Update issues holds no column of
\* a field flagged auto, whether the field is flagged primary key or not.
C18_UpdateOmitsAutos ==
  last.op = "Update" =>
    \A i \in DOMAIN last.sent :
      \A f \in Range(AutoDescs) : f.column \notin DOMAIN last.sent[i].set

\* C18 as the code has it: the SET clause holds the column of an auto field
\* that is not flagged primary key (an optional one when it is non-nil), with
\* the field's value, and no column of an auto field flagged primary key.
C18_UpdateSetsAutoUnlessKey ==
  last.op = "Update" /\ last.sent # <<>> =>
    \A f \in Range(AutoDescs) :
      /\ f.column \in DOMAIN Q.set <=> ~f.isKey /\ last.pre[f.name] # NIL
      /\ f.column \in DOMAIN Q.set => Q.set[f.column] = last.pre[f.name]

\* an Update of a Note has sent its two auto columns in the SET clause
C18_Witness ==
  /\ last.op = "Update" /\ last.sent # <<>>
  /\ recorder.record.type = "Note"
  /\ DOMAIN Q.set = {<<"seq">>, <<"rev">>, <<"text">>}
  /\ Q.set[<<"seq">>] = MaxVal
  /\ Q.set[<<"rev">>] = 0

\* C19: Load (for the fields that are no keys) and LoadWhere (for all)
\* allocate every optional mapped field that is nil when the call starts: the
\* field is non-nil once the statement is sent, and after a successful call
\* it holds the value of its column in the row.
C19_LoadAllocates ==
  last.op \in {"Load", "LoadWhere"} /\ last.sent # <<>> =>
    \A f \in Range(recorder.fields) :
      IsOptional(f) /\ (last.op = "LoadWhere" \/ ~f.isKey) =>
        /\ Rec[f.name] # NIL
        /\ f.column \in Range(Q.columns)
        /\ last.err = NoErr =>
             \E k \in DOMAIN Q.columns :
               /\ Q.columns[k] = f.column
               /\ Rec[f.name] = Row(last.given.ans.base, Len(Q.columns))[k]

\* a Load of a Pivot whose Weight was nil has succeeded
C19_Witness ==
  /\ last.op = "Load" /\ last.err = NoErr
  /\ recorder.record.type = "Pivot"
  /\ last.pre["Weight"] = NIL
  /\ Rec["Weight"] = Row(last.given.ans.base, 1)[1]
  /\ Rec["Weight"] = MaxVal

\* C20: in every dialect the SET clause of Update holds the column of an
\* optional field if and only if the field is non-nil when Update is called
\* (and is no key), and then with the value the field points to.
C20_UpdateIgnoresNil ==
  last.op = "Update" /\ last.sent # <<>> =>
    \A f \in Range(recorder.fields) :
      IsOptional(f) /\ ~f.isKey =>
        /\ f.column \in DOMAIN Q.set <=> last.pre[f.name] # NIL
        /\ f.column \in DOMAIN Q.set => Q.set[f.column] = last.pre[f.name]

\* a postgres Update of a Stool with Color nil has sent a SET clause
\* without the color column
C20_Witness ==
  /\ last.op = "Update" /\ last.sent # <<>>
  /\ recorder.flavor = "postgres"
  /\ recorder.record.type = "Stool"
  /\ last.pre["Color"] = NIL
  /\ DOMAIN Q.set = {<<"number_of_legs">>}
  /\ Rec["Color"] = NIL

\* C17: for a record with a key and no optional field nil, an Insert that
\* succeeds followed by a Load that succeeds, on a table that stores what is
\* written, leaves every mapped field that is not auto with the value it had
\* before the Insert (whatever the fields that are no keys were given in
\* between).
C17_InsertLoadRoundTrip ==
  [][(/\ last.op = "Insert" /\ last.err = NoErr
      /\ last'.op = "Load" /\ last'.err = NoErr
      /\ recorder.key # <<>>
      /\ \A f \in Range(recorder.fields) : IsOptional(f) => last.pre[f.name] # NIL)
     => \A f \in Range(recorder.fields) :
          ~f.isAuto => heap'[recorder.record][f.name] = last.pre[f.name]]_vars

\* a Load of a Stool has succeeded on the row its Insert stored: it found
\* Legs and Color changed since and put the stored values back
C17_Witness ==
  /\ last.op = "Load" /\ last.err = NoErr
  /\ recorder.record.type = "Stool"
  /\ Len(rows) = 1
  /\ last.pre["Legs"] # rows[1][<<"number_of_legs">>]
  /\ last.pre["Color"] = NIL
  /\ Rec["Legs"] = rows[1][<<"number_of_legs">>]
  /\ Rec["Color"] = rows[1][<<"color">>]
  /\ Rec["Color"] # Rec["Legs"]
  /\ Rec["Id"] = rows[1][<<"id">>]

\* C21: Delete, Update, Exists and ExistsWhere leave every field of the
\* bound record, mapped or not, with the value it had when the call was made,
\* whatever the handle answers and whatever the hooks return.
C21_WritersLeaveRecord ==
  last.op \in {"Delete", "Update", "Exists", "ExistsWhere"} => Rec = last.pre

\* a Delete of a Stool has succeeded: its key, its plain field, its optional
\* field and its unmapped field hold the values the caller gave them
C21_Witness ==
  /\ last.op = "Delete" /\ last.err = NoErr /\ last.sent # <<>>
  /\ recorder.record.type = "Stool"
  /\ Rec["Id"] = MaxVal /\ Rec["Legs"] = MaxVal
  /\ Rec["Color"] = 0 /\ Rec["Ignored"] = "Boo"

\* the field named n has a descriptor that is not flagged primary key
IsLoaded(n) == \E f \in Range(recorder.fields) : f.name = n /\ ~f.isKey

\* C22: Load writes to the bound record in place and only to its mapped
\* fields that are no keys: every primary-key field and every unmapped field
\* holds after Load the value it held before.
C22_LoadKeepsKeys ==
  last.op = "Load" =>
    \A n \in DOMAIN Rec : ~IsLoaded(n) => Rec[n] = last.pre[n]

\* a Load of a Stool has succeeded: Legs has the value of the row, the keys
\* and the unmapped field have the values the caller gave, which the row
\* would not have given them
C22_Witness ==
  /\ last.op = "Load" /\ last.err = NoErr
  /\ recorder.record.type = "Stool"
  /\ Rec["Legs"] # last.pre["Legs"]
  /\ Rec["Id"] = MaxVal /\ Rec["Id2"] = MaxVal
  /\ Rec["Ignored"] = "Boo"
  /\ Row(last.given.ans.base, 4)[1] # MaxVal

\* the last call is a listing whose query the handle answered with rows
\* (any number, none too), and that has returned
Listed ==
  /\ last.op \in {"List", "ListWhere"}
  /\ last.given.fn.err = NoErr /\ last.given.ans.err = NoErr
  /\ last.err # "panic"

\* C23: List and ListWhere return one recorder per row of the answer, each
\* bound to a record of its own of the type of the source's record, none of
\* them the source's, with the table, the handle and the dialect of the
\* source; the source's record and the source's descriptors, key, table and
\* record reference are as they were before the call.
C23_ListAllocates ==
  Listed =>
    /\ Len(last.out) = last.given.ans.n
    /\ \A j \in DOMAIN last.out :
         /\ last.out[j].s.record.type = recorder.record.type
         /\ last.out[j].s.record # recorder.record
         /\ \A k \in DOMAIN last.out : last.out[k].s.record = last.out[j].s.record => k = j
         /\ last.out[j].s.table = recorder.table
         /\ last.out[j].s.db = recorder.db
         /\ last.out[j].s.flavor = recorder.flavor
    /\ Rec = last.pre
    /\ recorder = FreshlyBound

\* a List of Pivot records has returned as many recorders as the answer has
\* rows, more than one, for a source record the caller had filled in
C23_Witness ==
  /\ Listed /\ last.op = "List"
  /\ recorder.record.type = "Pivot"
  /\ Len(last.out) = MaxRows
  /\ last.out[1].s.record # last.out[MaxRows].s.record
  /\ last.out[MaxRows].s.db = TheDB
  /\ Rec["Zone"] = MaxVal /\ Rec["Weight"] = MaxVal

\* the scan of the j-th row of the last listing has failed
ScanFailed(j) == ListRow(recorder, Q.columns, last.given.ans, j).scanErr # NoErr

\* C24: when the scan of a row fails during List or ListWhere, the listing
\* stops at that row and the call returns an error: no recorder is returned
\* for the row.
C24_ListScanErrorAborts ==
  Listed =>
    \A j \in 1..last.given.ans.n :
      ScanFailed(j) => last.err # NoErr /\ Len(last.out) < j

\* the field declaration d carries a stbl tag
IsTagged(d) == d.tag # <<>>

\* the tag has, after its column, a token that trimmed is a primary key word
HasKeyToken(tag) ==
  \E i \in 2..Len(Split(tag, ",")) : TrimSpace(Split(tag, ",")[i]) \in KeyWords

\* the descriptors whose tag says primary key, in descriptor order
TagKeyDescs ==
  LET decl == SelectSeq(TypeOf(recorder.record), IsTagged)
      said(f) == \E i \in DOMAIN decl : decl[i].name = f.name /\ HasKeyToken(decl[i].tag)
  IN  SelectSeq(recorder.fields, said)

\* C25: a recorder bound once has one descriptor per field that carries a
\* stbl tag, in declaration order, and Key() lists once each, in descriptor
\* order, the columns of the descriptors whose tag says primary key: it is as
\* long as the descriptors flagged primary key are many.
C25_BindDescriptors ==
  Bound =>
    LET decl == SelectSeq(TypeOf(recorder.record), IsTagged)
    IN  /\ [i \in DOMAIN recorder.fields |-> recorder.fields[i].name]
             = [i \in DOMAIN decl |-> decl[i].name]
        /\ Key(recorder) = ColumnsOf(TagKeyDescs)
        /\ Len(Key(recorder)) = Len(KeyDescs)

\* C26: on a table that stores what is written, ExistsWhere with a
\* predicate the table can evaluate returns (true, nil) when a row of the
\* table matches the predicate and (false, nil) when none does, and Exists
\* does so for the predicate that equates every key column with the value
\* the key field holds when it is called.
C26_ExistsCounts ==
  /\ last.op = "ExistsWhere" /\ last.given.ans.err = NoErr =>
       /\ last.err = NoErr
       /\ last.has <=>
            \E i \in DOMAIN rows :
              Holds(PredWhere(last.given.pred, last.given.args), rows[i])
  /\ last.op = "Exists" /\ last.sent # <<>> /\ last.given.ans.err = NoErr =>
       /\ last.err = NoErr
       /\ last.has <=>
            \E i \in DOMAIN rows :
              \A f \in Range(recorder.key) : rows[i][f.column] = last.pre[f.name]

\* Exists has answered (false, nil) for a Stool whose key is that of no row
\* of a table that has a row
C26_Witness ==
  /\ last.op = "Exists" /\ last.err = NoErr /\ ~last.has
  /\ recorder.record.type = "Stool"
  /\ Len(rows) = 1
  /\ rows[1][<<"id_two">>] # Rec["Id2"]

\* C27: two goroutines, each with a recorder bound to a record of its own,
\* make their calls in any interleaving of their steps: whenever a goroutine
\* is between calls its record is as its calls alone leave it, and its
\* recorder has the descriptors, key, table and record its Bind gave it.
C27_PairIndependent ==
  \A i \in 1..2 :
    recorder[i].record # NoRecord =>
      /\ recorder[i] = Bind(New(TheDB, recorder[i].flavor), recorder[i].table, recorder[i].record)
      /\ recorder[i].record # recorder[3 - i].record
      /\ last[i].pc = "idle" => heap[recorder[i].record] = last[i].alone

\* two goroutines bound to two instances of Stool: the second has loaded its
\* record in full, key too, while the Load of the first, which has allocated
\* Color, waits for its answer
C27_Witness ==
  /\ recorder[1].record = [type |-> "Stool", id |-> 0]
  /\ recorder[2].record = [type |-> "Stool", id |-> 1]
  /\ last[1].pc = "sent" /\ last[1].op = "Load"
  /\ last[2].pc = "idle" /\ last[2].op = "LoadWhere"
  /\ heap[recorder[1].record]["Color"] = 0
  /\ last[1].alone["Color"] = NIL
  /\ heap[recorder[2].record]["Legs"] = MaxVal
  /\ heap[recorder[2].record]["Id2"] # MaxVal

\* the last call scans a row into the record: Load, LoadWhere, or Insert in
\* the postgres dialect, and it has sent its statement
Scans ==
  /\ last.op \in {"Load", "LoadWhere"} \/ (last.op = "Insert" /\ recorder.flavor = "postgres")
  /\ last.sent # <<>>

\* the columns the statement of the last call asks the row of
Asked == IF last.op = "Insert" THEN Q.returning ELSE Q.columns

\* C28: in Load, LoadWhere and the postgres Insert the columns asked for
\* and the scan destinations are as many and correspond position by
\* position, the i-th destination being the field of the i-th column, also
\* when optional fields are nil at the start of the call: so after a
\* successful scan every such field holds the i-th value of the row.
C28_ColumnsMatchDestinations ==
  Scans =>
    LET dest == FieldReferences(recorder, last.pre, last.op # "Load").refs
    IN  /\ Len(Asked) = Len(dest)
        /\ \A i \in DOMAIN Asked :
             /\ DescOf(Asked[i]).name = dest[i]
             /\ last.err = NoErr => Rec[dest[i]] = Row(last.given.ans.base, Len(Asked))[i]

\* a postgres Insert of a Stool with Color nil has scanned the four columns
\* it asked back into the four fields, Color the last
C28_Witness ==
  /\ Scans /\ last.op = "Insert" /\ last.err = NoErr
  /\ recorder.record.type = "Stool"
  /\ last.pre["Color"] = NIL
  /\ Len(Asked) = 4
  /\ Asked[4] = <<"color">>
  /\ Rec["Color"] = Row(last.given.ans.base, 4)[4]
  /\ Rec["Color"] # Rec["Legs"]

\* C29: in List and ListWhere the scan destinations taken from the new
\* record of a row are as many as the columns of the SELECT and correspond
\* to them in order, for records with primary-key fields too: the field of
\* the i-th column holds the i-th value of the row.
C29_ListColumnsMatchDestinations ==
  Listed =>
    \A j \in DOMAIN last.out :
      LET s    == last.out[j].s
          dest == FieldReferences(s, ZeroRecord(s.record), TRUE).refs
          row  == ListedRow(last.given.ans, Len(Q.columns), j)
      IN  /\ Len(dest) = Len(Q.columns)
          /\ \A i \in DOMAIN Q.columns :
               /\ DescOf(Q.columns[i]).name = dest[i]
               /\ last.given.ans.null # j => last.out[j].ar[dest[i]] = row[i]

\* C30: a Load or LoadWhere that returns the error of the handle (no row,
\* say) leaves every mapped field of the record as it was, a nil optional
\* field nil, so that an Insert or an Update made next lists the columns it
\* would have listed before the call.
C30_FailedLoadLeavesRecord ==
  last.op \in {"Load", "LoadWhere"} /\ last.sent # <<>> /\ last.given.ans.err # NoErr =>
    /\ \A f \in Range(recorder.fields) : Rec[f.name] = last.pre[f.name]
    /\ colValLists(recorder, Rec, TRUE, FALSE).columns
         = colValLists(recorder, last.pre, TRUE, FALSE).columns
    /\ DOMAIN updateFields(recorder, Rec) = DOMAIN updateFields(recorder, last.pre)

====
